---- MODULE Spec2Model ----
(***************************************************************************)
(* A model of the Mastermind solver of src/js/application.js: the scoring  *)
(* function testCode, the fitness of a Combination, the generational loop  *)
(* of Population.generation driven by its 5 ms timer, chooseNextGuess and  *)
(* the playNextGuess handler that starts a round.                          *)
(*                                                                         *)
(* A code is a sequence of NUM_FIELDS symbols.  The source keeps a code    *)
(* either as an array of one-character strings (Combination.code) or as    *)
(* the joined string (allCodes, the eligible set); join('') and split('')  *)
(* are inverse to each other on such arrays, and both forms are the same   *)
(* sequence here.                                                          *)
(*                                                                         *)
(* The scoring function is checked over the complete alphabet (Alphabet,   *)
(* six symbols, 1296 codes).  The population model plays over SYMBOLS, the *)
(* first two symbols (16 codes), with a population of POPULATION_SIZE      *)
(* members, an eligible set capped at SET_SIZE and MAXGEN generations:     *)
(* the source's 6 / 150 / 110 / 250 scaled down.                           *)
(***************************************************************************)
EXTENDS Integers, Sequences, FiniteSets, TLC

\* ------------------------------------------------------------------------
\* Constants of the program
\* ------------------------------------------------------------------------
NUM_FIELDS == 4

Alphabet == <<"A", "B", "C", "D", "E", "F">>

\* The symbols the population model plays with (a prefix of Alphabet).
SYMBOLS == <<"A", "B">>

NUM_SYMBOLS == Len(SYMBOLS)

FIT_A == 1
FIT_B == 2

\* Scaled-down sizes of the population model.
POPULATION_SIZE == 2
SET_SIZE == 1
MAXGEN == 2

\* The generation counter is not decremented below -GenFloor (the source
\* counts down without limit while the override of generation() holds).
GenFloor == 1

\* The number of guesses a game of the model records at most.
MaxGuesses == 2

Range(s) == {s[i] : i \in DOMAIN s}

Abs(n) == IF n < 0 THEN -n ELSE n

Min(m, n) == IF m < n THEN m ELSE n

\* variations(symbols, depth, [], results): every code of `depth` symbols.
RECURSIVE variations(_, _)
variations(symbols, depth) ==
    IF depth > 0
    THEN {<<s>> \o v : s \in Range(symbols), v \in variations(symbols, depth - 1)}
    ELSE {<<>>}

allCodes == variations(SYMBOLS, NUM_FIELDS)

\* The codes over the complete alphabet.
AllCodes6 == variations(Alphabet, NUM_FIELDS)

\* ------------------------------------------------------------------------
\* testCode
\* ------------------------------------------------------------------------
\* The first pass without line 214: no position is marked.
FirstPassMarkedNothing(combination, solution) ==
    [i \in 1..NUM_FIELDS |-> 0]

\* First pass (lines 211-216): marked[i] = 1 where the two codes agree.
FirstPassMarked(combination, solution) ==
    [i \in 1..NUM_FIELDS |-> IF combination[i] = solution[i] THEN 1 ELSE 0]

FirstPassA(combination, solution) ==
    Cardinality({i \in 1..NUM_FIELDS : combination[i] = solution[i]})

\* The inner loop without its test of marked[j]: a symbol of the solution is
\* counted again after it was consumed.
InnerLoopHitsIgnoringMarks(combination, solution, marked, i) ==
    {j \in 1..NUM_FIELDS : i # j /\ combination[i] = solution[j]}

\* The inner loop (lines 219-225): the first j /= i, unmarked, whose solution
\* symbol equals combination[i]; 0 when the loop ends without a break.
InnerLoopHits(combination, solution, marked, i) ==
    {j \in 1..NUM_FIELDS : i # j /\ marked[j] = 0 /\ combination[i] = solution[j]}

MinOf(S) == CHOOSE m \in S : \A n \in S : m <= n

\* The second pass as a plain count: every position of the combination whose
\* symbol is found at another position of the solution.
SecondPassCountingAll(combination, solution, marked, b, i) ==
    b + Cardinality({k \in i..NUM_FIELDS :
            \E j \in 1..NUM_FIELDS : j # k /\ combination[k] = solution[j]})

\* Second pass (lines 217-227), from position i on, with the running b.
RECURSIVE SecondPass(_, _, _, _, _)
SecondPass(combination, solution, marked, b, i) ==
    IF i > NUM_FIELDS THEN b
    ELSE IF combination[i] # solution[i]
              /\ InnerLoopHits(combination, solution, marked, i) # {}
         THEN LET j == MinOf(InnerLoopHits(combination, solution, marked, i))
              IN  SecondPass(combination, solution,
                             [marked EXCEPT ![j] = 1], b + 1, i + 1)
         ELSE SecondPass(combination, solution, marked, b, i + 1)

testCode(combination, solution) ==
    << FirstPassA(combination, solution),
       SecondPass(combination, solution,
                  FirstPassMarked(combination, solution), 0, 1) >>

\* ------------------------------------------------------------------------
\* Combination
\* ------------------------------------------------------------------------
Combination(code) == [code |-> code, fitness |-> 0, eligible |-> FALSE]

\* getCrossoverPoint(length): floor(random * (length - 2) + 1), random in [0, 1).
getCrossoverPoint(length) == 1..(length - 2)

\* crossover: the two children's codes (slice(0, p) of one, slice(p) of the other).
crossover(this, other, crossoverPoint) ==
    << Combination(SubSeq(this.code, 1, crossoverPoint)
                   \o SubSeq(other.code, crossoverPoint + 1, Len(other.code))),
       Combination(SubSeq(other.code, 1, crossoverPoint)
                   \o SubSeq(this.code, crossoverPoint + 1, Len(this.code))) >>

\* mutate: one position gets another symbol of SYMBOLS.
mutate(code, position, newValue) == [code EXCEPT ![position] = newValue]

MutateOutcomes(code) ==
    UNION {{mutate(code, position, newValue) :
                newValue \in Range(SYMBOLS) \ {code[position]}} :
           position \in 1..NUM_FIELDS}

\* permutate: the symbols at two sampled (distinct) positions are swapped.
permutate(code, p0, p1) == [code EXCEPT ![p1] = code[p0], ![p0] = code[p1]]

PermutateOutcomes(code) ==
    UNION {{permutate(code, p0, p1) : p1 \in (1..NUM_FIELDS) \ {p0}} :
           p0 \in 1..NUM_FIELDS}

\* inverse with the last symbol of the reversed code lost.
inverseShort(code) == [i \in 1..(Len(code) - 1) |-> code[Len(code) + 1 - i]]

\* inverse: the code reversed.
inverse(code) == [i \in 1..Len(code) |-> code[Len(code) + 1 - i]]

\* Lines 292-294: each of the three operators is applied or not (shouldDo),
\* in this order.
Operated(code) ==
    LET m == {code} \cup MutateOutcomes(code)
        p == m \cup UNION {PermutateOutcomes(c) : c \in m}
    IN  p \cup {inverse(c) : c \in p}

\* calculateFitness: the combination with its fitness set, and eligible set
\* (never cleared) when both differences are zero.
RECURSIVE xDifference(_, _, _)
xDifference(code, prevGuesses, i) ==
    IF i > Len(prevGuesses) THEN 0
    ELSE Abs(testCode(code, prevGuesses[i].code)[1] - prevGuesses[i].x)
         + xDifference(code, prevGuesses, i + 1)

RECURSIVE yDifference(_, _, _)
yDifference(code, prevGuesses, i) ==
    IF i > Len(prevGuesses) THEN 0
    ELSE Abs(testCode(code, prevGuesses[i].code)[2] - prevGuesses[i].y)
         + yDifference(code, prevGuesses, i + 1)

\* slickValue: the sum of the indices 0 .. length-1 of prevGuesses.
slickValue(prevGuesses) == (Len(prevGuesses) * (Len(prevGuesses) - 1)) \div 2

\* calculateFitness with the eligibility decided by the white pegs alone.
calculateFitnessWhiteOnly(this, prevGuesses) ==
    LET xD == xDifference(this.code, prevGuesses, 1)
        yD == yDifference(this.code, prevGuesses, 1)
    IN  [code     |-> this.code,
         fitness  |-> FIT_A * xD + yD + FIT_B * NUM_FIELDS * slickValue(prevGuesses),
         eligible |-> this.eligible \/ yD = 0]

\* calculateFitness with the eligibility decided by the black pegs alone.
calculateFitnessBlackOnly(this, prevGuesses) ==
    LET xD == xDifference(this.code, prevGuesses, 1)
        yD == yDifference(this.code, prevGuesses, 1)
    IN  [code     |-> this.code,
         fitness  |-> FIT_A * xD + yD + FIT_B * NUM_FIELDS * slickValue(prevGuesses),
         eligible |-> this.eligible \/ xD = 0]

calculateFitness(this, prevGuesses) ==
    LET xD == xDifference(this.code, prevGuesses, 1)
        yD == yDifference(this.code, prevGuesses, 1)
    IN  [code     |-> this.code,
         fitness  |-> FIT_A * xD + yD + FIT_B * NUM_FIELDS * slickValue(prevGuesses),
         eligible |-> this.eligible \/ (xD = 0 /\ yD = 0)]

\* ------------------------------------------------------------------------
\* Population
\* ------------------------------------------------------------------------
\* _.sample(list, n): shuffle, then the first max(0, n) elements: every
\* sequence of min(n, |list|) distinct elements.
RECURSIVE DistinctSeqs(_, _)
DistinctSeqs(S, n) ==
    IF n <= 0 \/ S = {} THEN {<<>>}
    ELSE UNION {{<<e>> \o t : t \in DistinctSeqs(S \ {e}, n - 1)} : e \in S}

sample(S, n) == DistinctSeqs(S, n)

\* Population.init with `codes` for allCodes: a sample of `size` codes, each
\* made a Combination.
InitFrom(codes, size) ==
    {[i \in 1..Len(randomSample) |-> Combination(randomSample[i])] :
        randomSample \in sample(codes, size)}

\* Population.init: a sample of `size` codes, each made a Combination.
PopulationInit(size) == InitFrom(allCodes, size)

\* Population.sort with b.fitness - a.fitness: descending fitness.
sortDescending(population) ==
    LET n == Len(population)
        rank(i) == 1 + Cardinality({j \in 1..n :
                        \/ population[j].fitness > population[i].fitness
                        \/ population[j].fitness = population[i].fitness /\ j < i})
    IN  [k \in 1..n |-> population[CHOOSE i \in 1..n : rank(i) = k]]

\* Population.sort: ascending fitness; members of equal fitness keep their
\* order (Array.prototype.sort is stable).
sort(members) ==
    LET n == Len(members)
        rank(i) == 1 + Cardinality({j \in 1..n :
                        \/ members[j].fitness < members[i].fitness
                        \/ members[j].fitness = members[i].fitness /\ j < i})
    IN  [k \in 1..n |-> members[CHOOSE i \in 1..n : rank(i) = k]]

\* Lines 279-287: the members from index i on are evaluated in order, and the
\* code of each eligible one is pushed unless the set has it already.
RECURSIVE Evaluate(_, _, _, _)
Evaluate(members, prevGuesses, eiSet, i) ==
    IF i > Len(members) THEN [members |-> members, eiSet |-> eiSet]
    ELSE LET m == calculateFitness(members[i], prevGuesses)
         IN  Evaluate([members EXCEPT ![i] = m], prevGuesses,
                      IF m.eligible /\ m.code \notin Range(eiSet)
                      THEN Append(eiSet, m.code) ELSE eiSet,
                      i + 1)

\* _.uniq: the first occurrence of each value, in order.
RECURSIVE uniq(_)
uniq(s) ==
    IF s = <<>> THEN <<>>
    ELSE LET front == uniq(SubSeq(s, 1, Len(s) - 1))
         IN  IF s[Len(s)] \in Range(front) THEN front ELSE Append(front, s[Len(s)])

\* splice(lastIndex - 1, 2, a, b): the last two elements replaced.
spliceLast2(population, a, b) ==
    SubSeq(population, 1, Len(population) - 2) \o <<a, b>>

\* splice(0, 2, a, b): the first two elements replaced.
splice02(members, a, b) == <<a, b>> \o SubSeq(members, 3, Len(members))

\* Lines 297-302 without the refill of lines 299-300.
RefillNothing(members, size) ==
    {[i \in 1..Len(uniqueCodes) |-> Combination(uniqueCodes[i])] :
        uniqueCodes \in {uniq([i \in 1..Len(members) |-> members[i].code])}}

\* Lines 297-302 with the members of line 296 kept as they are, evaluated,
\* and new Combinations made of the new codes only.
RefillFromKeeping(codes, population, size) ==
    UNION {
      {kept \o [i \in 1..Len(newMembers) |-> Combination(newMembers[i])] :
          newMembers \in sample(codes \ {kept[i].code : i \in 1..Len(kept)},
                                size - Len(kept))}
      : kept \in {SelectSeq(population,
                            LAMBDA m : m = population[CHOOSE i \in 1..Len(population) :
                                              /\ population[i].code = m.code
                                              /\ \A j \in 1..(i - 1) :
                                                    population[j].code # m.code])}}

\* Lines 297-302 with `codes` for allCodes: duplicates removed, refilled from
\* the unused codes up to `size`, every member a new Combination.
RefillFrom(codes, members, size) ==
    UNION {
      {[i \in 1..Len(union) |-> Combination(union[i])] :
          union \in {uniqueCodes \o newMembers :
                        newMembers \in sample(codes \ Range(uniqueCodes),
                                              size - Len(uniqueCodes))}}
      : uniqueCodes \in {uniq([i \in 1..Len(members) |-> members[i].code])}}

\* Lines 297-302 with allCodes.
Refill(members, size) == RefillFrom(allCodes, members, size)

\* Line 290: this.members[lastIndex] and this.members[lastIndex - 1].
Parents(sorted) == <<sorted[Len(sorted)], sorted[Len(sorted) - 1]>>

\* Lines 289-290: the two children of the last two members of the sorted array.
Children(sorted, crossoverPoint) ==
    crossover(Parents(sorted)[1], Parents(sorted)[2], crossoverPoint)

\* The test of lines 273-274: generation() calls back instead of running.
Stops(prevGuesses, eiSet, maxGen) ==
    /\ maxGen <= 0 \/ Len(eiSet) = SET_SIZE
    /\ ~(Len(prevGuesses) > 1 /\ Len(eiSet) < 1)

\* ------------------------------------------------------------------------
\* chooseNextGuess
\* ------------------------------------------------------------------------
\* _.without(list, value): the list without every occurrence of value.
without(list, value) == SelectSeq(list, LAMBDA e : e # value)

RECURSIVE SumSeq(_)
SumSeq(s) == IF s = <<>> THEN 0 ELSE s[1] + SumSeq(Tail(s))

\* The inner loops (lines 322-331) for eligible[i]: the value of sum.
SplitSum(eligible, i) ==
    LET searchSpace == without(eligible, eligible[i])
    IN  SumSeq([j \in 1..Len(searchSpace) |->
            LET testResponse   == testCode(eligible[i], searchSpace[j])
                remainingCodes == without(searchSpace, searchSpace[j])
            IN  Cardinality({k \in 1..Len(remainingCodes) :
                    testResponse # testCode(remainingCodes[k], searchSpace[j])})])

\* The outer loop with >= for > in line 332: the last of the codes of the
\* largest sum is kept.
RECURSIVE ChooseFromLast(_, _, _, _)
ChooseFromLast(eligible, i, max, nextGuess) ==
    IF i > Len(eligible) THEN nextGuess
    ELSE IF SplitSum(eligible, i) >= max
         THEN ChooseFromLast(eligible, i + 1, SplitSum(eligible, i), eligible[i])
         ELSE ChooseFromLast(eligible, i + 1, max, nextGuess)

\* The outer loop from index i on, with the running max and nextGuess.
RECURSIVE ChooseFrom(_, _, _, _)
ChooseFrom(eligible, i, max, nextGuess) ==
    IF i > Len(eligible) THEN nextGuess
    ELSE IF SplitSum(eligible, i) > max
         THEN ChooseFrom(eligible, i + 1, SplitSum(eligible, i), eligible[i])
         ELSE ChooseFrom(eligible, i + 1, max, nextGuess)

chooseNextGuess(eligible) == ChooseFrom(eligible, 1, 0, eligible[1])

\* ------------------------------------------------------------------------
\* The game: state, playNextGuess and the generation timer
\* ------------------------------------------------------------------------
VARIABLES
    aiGuess,          \* the guess on display
    previousGuesses,  \* the records {code, x, y} of the game
    members,          \* population.members
    eligibleSet,      \* the eligible set of the round
    maxGen,           \* the maxGen argument of the pending generation() call
    phase,            \* "go": a go button waits for the response;
                      \* "pending": the timer of line 305 is set;
                      \* "win" / "lose": the alert of line 495 / 507 was shown
    probe,            \* a call of a pure function and its result
    populationUsed,   \* the Population instance has run a generation
    game,             \* the Mastermind instance: game.solution
    abandoned,        \* the generation() call left pending by startNewGame
    newGames,         \* the clicks on the new-game button so far
    staleCallback     \* what the callback of the abandoned call did

\* What startNewGame and the abandoned call change besides the game.
sessionVars == <<game, abandoned, newGames, staleCallback>>

vars == <<aiGuess, previousGuesses, members, eligibleSet, maxGen, phase, probe,
          populationUsed, game, abandoned, newGames, staleCallback>>

gameVars == <<aiGuess, previousGuesses, members, eligibleSet, maxGen, phase,
              populationUsed, game, abandoned, newGames, staleCallback>>

NoProbe == [op |-> "none"]

\* No generation() call of an earlier game is pending.
NoLoop == [pending |-> FALSE]

\* The responses a player can set on the four test cells (countTestResponse).
Responses == {<<0, 0>>, <<2, 0>>, <<4, 0>>}

\* The first guesses of the games of the model.
FirstGuesses == {<<"A", "A", "B", "B">>}

\* The solution new Mastermind() draws in the games with a free response,
\* which never read it.
Solutions == {<<"A", "B", "A", "B">>}

\* initGameVariables, cleanUpPlayground: go-btn-0 is enabled.
Init ==
    /\ aiGuess \in FirstGuesses
    /\ members \in PopulationInit(POPULATION_SIZE)
    /\ eligibleSet = <<>>
    /\ previousGuesses = <<>>
    /\ maxGen = 0
    /\ phase = "go"
    /\ probe = NoProbe
    /\ populationUsed = FALSE
    /\ game \in {[solution |-> code] : code \in Solutions}
    /\ abandoned = NoLoop
    /\ newGames = 0
    /\ staleCallback = "none"

\* maxGen - 1 (line 304), kept at -GenFloor once it is there.
NextGen(mg) == IF mg - 1 < -GenFloor THEN -GenFloor ELSE mg - 1

\* The callback playNextGuess passes (lines 500-510).
Callback(eiSet) ==
    /\ IF Len(eiSet) > 0
       THEN /\ aiGuess' = chooseNextGuess(eiSet)
            /\ phase' = "go"
       ELSE /\ aiGuess' = aiGuess
            /\ phase' = "lose"
    /\ eligibleSet' = eiSet
    /\ UNCHANGED <<members, maxGen, populationUsed>>

\* One call of population.generation(prevGuesses, eiSet, mg, callback).
GenerationCall(prevGuesses, eiSet, mg) ==
    IF Stops(prevGuesses, eiSet, mg)
    THEN Callback(eiSet)
    ELSE /\ \E ev \in {Evaluate(members, prevGuesses, eiSet, 1)} :
              \E sorted \in {sort(ev.members)} :
                 /\ eligibleSet' = ev.eiSet
                 /\ \E cp \in getCrossoverPoint(Len(sorted[Len(sorted)].code)) :
                      \E kids \in {Children(sorted, cp)} :
                        \E cs \in Operated(kids[1].code) \X Operated(kids[2].code) :
                          members' \in Refill(splice02(sorted, Combination(cs[1]),
                                                       Combination(cs[2])),
                                              POPULATION_SIZE)
         /\ maxGen' = NextGen(mg)
         /\ phase' = "pending"
         /\ aiGuess' = aiGuess
         /\ populationUsed' = TRUE

\* A click on the enabled go button: playNextGuess(blackNum, whiteNum),
\* with the first generation() call it makes.
PlayNextGuess(blackNum, whiteNum) ==
    /\ phase = "go"
    /\ Len(previousGuesses) < MaxGuesses
    /\ previousGuesses' =
          Append(previousGuesses, [code |-> aiGuess, x |-> blackNum, y |-> whiteNum])
    /\ IF blackNum = NUM_FIELDS
       THEN /\ phase' = "win"
            /\ UNCHANGED <<aiGuess, members, eligibleSet, maxGen, populationUsed>>
       ELSE GenerationCall(previousGuesses', <<>>, MAXGEN)
    /\ UNCHANGED <<probe, sessionVars>>

\* The timer of line 305 fires: generation() with maxGen - 1.
Generation ==
    /\ phase = "pending"
    /\ GenerationCall(previousGuesses, eligibleSet, maxGen)
    /\ UNCHANGED <<previousGuesses, probe, sessionVars>>

Next ==
    \/ \E r \in Responses : PlayNextGuess(r[1], r[2])
    \/ Generation

Spec == Init /\ [][Next]_vars

\* ------------------------------------------------------------------------
\* The new-game button while a generation() call is pending
\* ------------------------------------------------------------------------
\* The clicks on the new-game button in a behaviour.
MaxNewGames == 1

\* The populations the new game of the model starts with.
RestartPopulations ==
    {m \in PopulationInit(POPULATION_SIZE) :
        \A i \in 1..Len(m) : SubSeq(m[i].code, 1, NUM_FIELDS - 1) = <<"A", "A", "A">>}

\* The new-game button: startNewGame (initGameVariables, cleanUpPlayground).
\* No timer is cleared: a pending generation() call keeps its population,
\* its history and its eligible set, and the callback of playNextGuess.
startNewGame ==
    /\ newGames < MaxNewGames
    /\ newGames' = newGames + 1
    /\ game' \in {[solution |-> code] : code \in Solutions}
    /\ aiGuess' \in FirstGuesses
    /\ members' \in RestartPopulations
    /\ populationUsed' = FALSE
    /\ eligibleSet' = <<>>
    /\ previousGuesses' = <<>>
    /\ maxGen' = 0
    /\ phase' = "go"
    /\ abandoned' = IF phase = "pending"
                    THEN [pending     |-> TRUE,
                          members     |-> members,
                          prevGuesses |-> previousGuesses,
                          eiSet       |-> eligibleSet,
                          maxGen      |-> maxGen]
                    ELSE abandoned
    /\ UNCHANGED <<staleCallback, probe>>

\* The timer of the abandoned call fires: generation() on the old population,
\* history and set; its callback (lines 500-510) reads the globals of the
\* game that is played now.
AbandonedGeneration ==
    /\ abandoned.pending
    /\ IF Stops(abandoned.prevGuesses, abandoned.eiSet, abandoned.maxGen)
       THEN /\ IF Len(eligibleSet) > 0
               THEN /\ aiGuess' = chooseNextGuess(eligibleSet)
                    /\ phase' = "go"
                    /\ staleCallback' = "guess"
               ELSE /\ staleCallback' = "lose"
                    /\ UNCHANGED <<aiGuess, phase>>
            /\ abandoned' = NoLoop
       ELSE /\ \E ev \in {Evaluate(abandoned.members, abandoned.prevGuesses,
                                   abandoned.eiSet, 1)} :
                 \E sorted \in {sort(ev.members)} :
                   \E cp \in getCrossoverPoint(Len(sorted[Len(sorted)].code)) :
                     \E kids \in {Children(sorted, cp)} :
                       \E cs \in Operated(kids[1].code) \X Operated(kids[2].code) :
                         \E m \in Refill(splice02(sorted, Combination(cs[1]),
                                                  Combination(cs[2])),
                                         POPULATION_SIZE) :
                            abandoned' = [pending     |-> TRUE,
                                          members     |-> m,
                                          prevGuesses |-> abandoned.prevGuesses,
                                          eiSet       |-> ev.eiSet,
                                          maxGen      |-> NextGen(abandoned.maxGen)]
            /\ UNCHANGED <<aiGuess, phase, staleCallback>>
    /\ UNCHANGED <<members, eligibleSet, previousGuesses, maxGen, populationUsed,
                   game, newGames, probe>>

\* The player answers a guess when no abandoned call is pending.
NextRestart ==
    \/ \E r \in Responses : abandoned = NoLoop /\ PlayNextGuess(r[1], r[2])
    \/ Generation
    \/ startNewGame
    \/ AbandonedGeneration

SpecRestart == Init /\ [][NextRestart]_vars

\* ------------------------------------------------------------------------
\* Calls of the pure functions, on inputs drawn from bounded sets
\* ------------------------------------------------------------------------
\* The longest history of a calculateFitness call, and the largest eligible
\* set of a chooseNextGuess call.
MaxHistory == 2
MaxEligible == 3

\* No game is played in the specifications of the pure functions.
NoGame ==
    /\ aiGuess = <<>>
    /\ members = <<>>
    /\ eligibleSet = <<>>
    /\ previousGuesses = <<>>
    /\ maxGen = 0
    /\ phase = "none"
    /\ populationUsed = FALSE
    /\ game = [solution |-> <<>>]
    /\ abandoned = NoLoop
    /\ newGames = 0
    /\ staleCallback = "none"

InitCall == NoGame /\ probe = NoProbe

\* testCode(combination, solution) on two codes over the complete alphabet.
TestCodeCall ==
    /\ probe = NoProbe
    /\ \E combination \in AllCodes6, solution \in AllCodes6 :
          probe' = [op          |-> "testCode",
                    combination |-> combination,
                    solution    |-> solution,
                    response    |-> testCode(combination, solution)]
    /\ UNCHANGED gameVars

SpecScore == InitCall /\ [][TestCodeCall]_vars

\* testCombination with the black and the white count exchanged.
testCombinationSwapped(solution, combination) ==
    << testCode(combination, solution)[2], testCode(combination, solution)[1] >>

\* Mastermind.testCombination: the guess scored against game.solution.
testCombination(solution, combination) == testCode(combination, solution)

\* The sequences of 1 .. n elements of S.
RECURSIVE SeqsUpTo(_, _)
SeqsUpTo(S, n) ==
    IF n <= 0 THEN {}
    ELSE {<<e>> : e \in S}
         \cup {Append(t, e) : t \in SeqsUpTo(S, n - 1), e \in S}

\* The history of a game with the given solution and guesses: each record
\* carries the response testCombination gives (showPegs, countTestResponse).
TrueHistory(solution, guesses) ==
    [i \in 1..Len(guesses) |->
        [code |-> guesses[i],
         x    |-> testCombination(solution, guesses[i])[1],
         y    |-> testCombination(solution, guesses[i])[2]]]

\* calculateFitness on a new Combination of the solution's code.
FitnessCall ==
    /\ probe = NoProbe
    /\ \E solution \in allCodes, guesses \in SeqsUpTo(allCodes, MaxHistory) :
          probe' = [op          |-> "calculateFitness",
                    solution    |-> solution,
                    prevGuesses |-> TrueHistory(solution, guesses),
                    result      |-> calculateFitness(Combination(solution),
                                                     TrueHistory(solution, guesses))]
    /\ UNCHANGED gameVars

SpecFitness == InitCall /\ [][FitnessCall]_vars

\* The number of testCode calls chooseNextGuess makes (lines 323 and 326).
Comparisons(eligible) ==
    SumSeq([i \in 1..Len(eligible) |->
        LET searchSpace == without(eligible, eligible[i])
        IN  SumSeq([j \in 1..Len(searchSpace) |->
                1 + Len(without(searchSpace, searchSpace[j]))])])

\* chooseNextGuess on an eligible set (no code twice) of 1 .. MaxEligible codes.
ChooseCall ==
    /\ probe = NoProbe
    /\ \E n \in 1..MaxEligible :
         \E eligible \in DistinctSeqs(allCodes, n) :
            probe' = [op          |-> "chooseNextGuess",
                      eligible    |-> eligible,
                      comparisons |-> Comparisons(eligible),
                      result      |-> chooseNextGuess(eligible)]
    /\ UNCHANGED gameVars

SpecChoose == InitCall /\ [][ChooseCall]_vars

\* ------------------------------------------------------------------------
\* The game against game.solution (GAME_MODE_3)
\* ------------------------------------------------------------------------
\* The solutions Mastermind.newGame draws in the games of the model: the
\* first guess itself, and a code it scores (3, 0) against.
TrueSolutions == { <<"A", "A", "B", "B">>, <<"A", "A", "A", "B">> }

InitTrue ==
    /\ aiGuess \in FirstGuesses
    /\ members \in PopulationInit(POPULATION_SIZE)
    /\ eligibleSet = <<>>
    /\ previousGuesses = <<>>
    /\ maxGen = 0
    /\ phase = "go"
    /\ probe = NoProbe
    /\ populationUsed = FALSE
    /\ game \in {[solution |-> code] : code \in TrueSolutions}
    /\ abandoned = NoLoop
    /\ newGames = 0
    /\ staleCallback = "none"

\* showPegs sets the test cells to game.testCombination(aiGuess), the player
\* cannot change them, and the go button hands them to playNextGuess.
TrueResponse ==
    \E r \in {testCombination(game.solution, aiGuess)} : PlayNextGuess(r[1], r[2])

NextTrue == TrueResponse \/ Generation

SpecTrue == InitTrue /\ [][NextTrue]_vars

\* ------------------------------------------------------------------------
\* Populations larger than the code space
\* ------------------------------------------------------------------------
\* The length of the codes of the small code space.
FillFields == 2

FillCodes == variations(SYMBOLS, FillFields)

\* The sizes a Population is constructed with: up to one more than there
\* are codes.
FillSizes == 1..(Cardinality(FillCodes) + 1)

\* new Population(size): init() returns without a throw or an error value,
\* whatever _.sample returned.
PopulationCall ==
    /\ probe = NoProbe
    /\ \E size \in FillSizes :
         \E population \in InitFrom(FillCodes, size) :
            probe' = [op        |-> "Population",
                      size      |-> size,
                      needed    |-> size,
                      available |-> Cardinality(FillCodes),
                      members   |-> population,
                      error     |-> "none"]
    /\ UNCHANGED gameVars

\* Lines 296-302 on the population of the probe, with two children: the
\* statements run to the end, whatever _.sample returned.
RefillCall ==
    /\ probe.op \in {"Population", "refill"}
    /\ \E a \in FillCodes, b \in FillCodes :
         \E spliced \in {splice02(probe.members, Combination(a), Combination(b))} :
            \E uniqueCodes \in {uniq([i \in 1..Len(spliced) |-> spliced[i].code])} :
               \E population \in RefillFrom(FillCodes, spliced, probe.size) :
                  probe' = [op        |-> "refill",
                            size      |-> probe.size,
                            needed    |-> probe.size - Len(uniqueCodes),
                            available |-> Cardinality(FillCodes \ Range(uniqueCodes)),
                            members   |-> population,
                            error     |-> "none"]
    /\ UNCHANGED gameVars

NextFill == PopulationCall \/ RefillCall

SpecFill == InitCall /\ [][NextFill]_vars

\* ------------------------------------------------------------------------
\* One generation of a population of more than two members
\* ------------------------------------------------------------------------
\* The size of the population, and the length of the history.
StepSize == 3
StepHistory == 1

\* The codes of the populations: the codes with the first symbol of SYMBOLS
\* in their first field.
StepCodes == {code \in allCodes : code[1] = SYMBOLS[1]}

\* The records of the histories: a guess and a response that is no win.
StepRecords ==
    {[code |-> guess, x |-> r[1], y |-> r[2]] :
        guess \in FirstGuesses \cup {<<"A", "A", "A", "A">>},
        r \in {q \in Responses : q[1] # NUM_FIELDS}}

\* Lines 279-302 once, on a population as Population.init or line 300 leaves
\* it (new Combinations) and an eligible set that is still empty.
GenerationStep ==
    /\ probe = NoProbe
    /\ \E population \in InitFrom(StepCodes, StepSize),
          prevGuesses \in SeqsUpTo(StepRecords, StepHistory) :
         \E ev \in {Evaluate(population, prevGuesses, <<>>, 1)} :
           \E sorted \in {sort(ev.members)} :
             \E cp \in getCrossoverPoint(Len(sorted[Len(sorted)].code)) :
               \E kids \in {Children(sorted, cp)} :
                 \E cs \in Operated(kids[1].code) \X Operated(kids[2].code) :
                   \E m \in Refill(splice02(sorted, Combination(cs[1]),
                                            Combination(cs[2])), StepSize) :
                      probe' = [op          |-> "generation",
                                prevGuesses |-> prevGuesses,
                                sorted      |-> sorted,
                                parents     |-> Parents(sorted),
                                children    |-> cs,
                                members     |-> m,
                                eiSet       |-> ev.eiSet]
    /\ UNCHANGED gameVars

SpecStep == InitCall /\ [][GenerationStep]_vars

\* ------------------------------------------------------------------------
\* Properties
\* ------------------------------------------------------------------------
NoCodeTwice(s) == \A i, j \in 1..Len(s) : i # j => s[i] # s[j]

MemberCodes == [i \in 1..Len(members) |-> members[i].code]

\* C1: after Population.init and after every generation, the population
\* holds exactly POPULATION_SIZE members and no two of them have the same code.
C1_PopulationSizeAndUnique ==
    /\ Len(members) = POPULATION_SIZE
    /\ NoCodeTwice(MemberCodes)

\* The second round of a game, with two generations behind it.
C1_Witness ==
    /\ phase = "pending"
    /\ Len(previousGuesses) = 2
    /\ maxGen = MAXGEN - 2
    /\ Len(members) = POPULATION_SIZE
    /\ NoCodeTwice(MemberCodes)

\* C2: the eligible set never holds more than SET_SIZE codes.
C2_SetWithinCap == Len(eligibleSet) <= SET_SIZE

\* The test the claim C3 gives for a generation() call to call back: the
\* budget is used up or the set has reached its cap, and the override (more
\* than one guess, nothing eligible yet) does not hold.
ClaimedStop ==
    /\ maxGen <= 0 \/ Len(eligibleSet) >= SET_SIZE
    /\ ~(Len(previousGuesses) > 1 /\ Len(eligibleSet) = 0)

\* C3: a pending generation() call calls back (the next guess is chosen or
\* the loss is reported) exactly when ClaimedStop holds, and otherwise runs
\* one more generation with the counter one lower.
C3_StopsExactlyWhenClaimed ==
    [][phase = "pending" =>
         IF ClaimedStop
         THEN phase' \in {"go", "lose"}
         ELSE phase' = "pending" /\ maxGen' = NextGen(maxGen)]_vars

\* No code of the code space is consistent with the history.
NoCodeConsistent(prevGuesses) ==
    \A code \in allCodes : \E k \in 1..Len(prevGuesses) :
        testCode(code, prevGuesses[k].code) # <<prevGuesses[k].x, prevGuesses[k].y>>

\* C4: for every history, also one of more than one guess with which no
\* code is consistent, the loop ends after a bounded number of generations
\* and calls back: a pending generation() call that finds its budget of
\* MAXGEN generations, and GenFloor more, used up does not run on.
C4_LoopEndsWithinBound ==
    [][(/\ phase = "pending"
        /\ maxGen <= -GenFloor
        /\ NoCodeConsistent(previousGuesses))
       => phase' \in {"go", "lose"}]_vars

\* The recorded response is the score of the code against the recorded guess.
Consistent(code, record) ==
    /\ testCode(code, record.code) = <<record.x, record.y>>
    /\ testCode(record.code, code) = <<record.x, record.y>>

\* C6: while a round runs and until the next response is given, the eligible
\* set holds no code twice and every code in it is consistent with every
\* record of the history.
C6_EligibleSetConsistent ==
    phase \in {"pending", "go", "lose"} =>
        /\ NoCodeTwice(eligibleSet)
        /\ \A i \in 1..Len(eligibleSet) : \A k \in 1..Len(previousGuesses) :
              Consistent(eligibleSet[i], previousGuesses[k])

\* A code found eligible against a history of two records.
C6_Witness ==
    /\ phase \in {"pending", "go"}
    /\ Len(previousGuesses) = 2
    /\ Len(eligibleSet) >= 1
    /\ \A i \in 1..Len(eligibleSet) : \A k \in 1..Len(previousGuesses) :
          Consistent(eligibleSet[i], previousGuesses[k])

\* The number of positions in P at which code holds symbol.
CountAt(code, symbol, P) == Cardinality({i \in P : code[i] = symbol})

\* The positions at which the two codes differ.
Unmatched(a, b) == {i \in 1..NUM_FIELDS : a[i] # b[i]}

\* The score as specified: the positions that agree; and, over the other
\* positions, the symbols of a paired one-to-one with equal symbols of b.
SpecifiedScore(a, b) ==
    << NUM_FIELDS - Cardinality(Unmatched(a, b)),
       SumSeq([k \in 1..Len(Alphabet) |->
                  Min(CountAt(a, Alphabet[k], Unmatched(a, b)),
                      CountAt(b, Alphabet[k], Unmatched(a, b)))]) >>

\* C7: testCode(a, b) is the specified score of a against b, for all codes of
\* NUM_FIELDS symbols over the six-symbol alphabet; testCode(ABCD, AEFB) = (1, 1).
C7_TestCodeIsSpecifiedScore ==
    probe.op = "testCode" =>
        /\ probe.response = SpecifiedScore(probe.combination, probe.solution)
        /\ (/\ probe.combination = <<"A", "B", "C", "D">>
            /\ probe.solution = <<"A", "E", "F", "B">>) => probe.response = <<1, 1>>

C7_Witness ==
    /\ probe.op = "testCode"
    /\ probe.combination = <<"A", "B", "C", "D">>
    /\ probe.solution = <<"A", "E", "F", "B">>
    /\ probe.response = <<1, 1>>

\* C8: testCode(a, b) and testCode(b, a) are the same pair, for all codes,
\* codes with repeated symbols too.
C8_TestCodeSymmetric ==
    probe.op = "testCode" =>
        probe.response = testCode(probe.solution, probe.combination)

\* Two different codes with repeated symbols and a partial match.
C8_Witness ==
    /\ probe.op = "testCode"
    /\ probe.combination = <<"A", "A", "B", "C">>
    /\ probe.solution = <<"B", "A", "A", "A">>
    /\ probe.response = <<1, 2>>
    /\ testCode(probe.solution, probe.combination) = <<1, 2>>

\* C9: the two numbers testCode returns are not negative and add up to
\* NUM_FIELDS at most.
C9_ScoreWithinLength ==
    probe.op = "testCode" =>
        /\ probe.response[1] >= 0
        /\ probe.response[2] >= 0
        /\ probe.response[1] + probe.response[2] <= NUM_FIELDS

\* A score that reaches the bound with partial matches alone.
C9_Witness ==
    /\ probe.op = "testCode"
    /\ probe.response = <<0, NUM_FIELDS>>

\* C5: with a history (not empty) whose records carry the responses
\* testCombination gave against the solution, calculateFitness makes a
\* Combination of the solution's code eligible.
C5_SolutionIsEligible ==
    probe.op = "calculateFitness" => probe.result.eligible

\* A history of two guesses, neither of them the solution.
C5_Witness ==
    /\ probe.op = "calculateFitness"
    /\ Len(probe.prevGuesses) = 2
    /\ \A k \in 1..2 : probe.prevGuesses[k].code # probe.solution
    /\ probe.prevGuesses[1].y > 0
    /\ probe.result.eligible

\* The split sum of g in the eligible set: the pairs of a reference r and
\* another code k, both other than g, that g's score against r tells apart.
SplitOf(g, eligible) ==
    Cardinality({rk \in (Range(eligible) \ {g}) \X (Range(eligible) \ {g}) :
                    /\ rk[1] # rk[2]
                    /\ testCode(rk[2], rk[1]) # testCode(g, rk[1])})

\* C10: chooseNextGuess returns a member of the set whose split sum is the
\* largest, the first such member in the set's order; and the only member
\* of a set of one, without a testCode call.
C10_ChoosesFirstMaximalSplit ==
    probe.op = "chooseNextGuess" =>
        /\ \E i \in 1..Len(probe.eligible) :
              /\ probe.result = probe.eligible[i]
              /\ \A j \in 1..Len(probe.eligible) :
                    SplitOf(probe.eligible[j], probe.eligible)
                        <= SplitOf(probe.result, probe.eligible)
              /\ \A j \in 1..(i - 1) :
                    SplitOf(probe.eligible[j], probe.eligible)
                        < SplitOf(probe.result, probe.eligible)
        /\ Len(probe.eligible) = 1 =>
              probe.result = probe.eligible[1] /\ probe.comparisons = 0

\* A set of three in which the first and the second code share the largest
\* split sum, and the first is returned.
C10_Witness ==
    /\ probe.op = "chooseNextGuess"
    /\ Len(probe.eligible) = 3
    /\ probe.result = probe.eligible[1]
    /\ SplitOf(probe.eligible[1], probe.eligible) > 0
    /\ SplitOf(probe.eligible[2], probe.eligible)
          = SplitOf(probe.eligible[1], probe.eligible)

\* C11: a round starts with a new Population and an empty eligible set: when
\* playNextGuess starts the generational loop, the Population instance has
\* run no generation before, and the set its first generation leaves holds
\* codes of the members it evaluated only.
C11_RoundStartsFresh ==
    [][(phase = "go" /\ phase' = "pending")
       => /\ ~populationUsed
          /\ Range(eligibleSet') \subseteq Range(MemberCodes)]_vars

\* C12: once startNewGame has replaced the population, the eligible set and
\* the history, the generation() call it left pending never acts on the new
\* game: its callback sets no guess, enables no go button, reports no loss.
C12_AbandonedLoopIsSilent == staleCallback = "none"

\* C13: when the population needs more unused codes than the code space
\* still has, Population.init and the refill of generation() report
\* ExhaustedCodeSpace; they do not return an under-filled population.
C13_ExhaustionSurfaced ==
    (probe.op \in {"Population", "refill"} /\ probe.needed > probe.available)
        => /\ probe.error = "ExhaustedCodeSpace"
           /\ Len(probe.members) = probe.size

\* C14: in a game in which every response is the score of the guess against
\* the solution, no round ends with a loss, and the game is over after ten
\* rounds at most.
C14_TrueGameIsNeverLost ==
    /\ phase # "lose"
    /\ Len(previousGuesses) <= 10

\* C15: the code of every member of the population, the children that went
\* through crossover, mutate, permutate and inverse among them, has
\* NUM_FIELDS symbols, each of them a symbol of SYMBOLS.
C15_CodesWellFormed ==
    \A i \in 1..Len(members) :
        /\ Len(members[i].code) = NUM_FIELDS
        /\ Range(members[i].code) \subseteq Range(SYMBOLS)

\* The second round of a game: the first two members are the children of
\* the generation before, here two different codes, one the reverse of the
\* other.
C15_Witness ==
    /\ phase = "pending"
    /\ Len(previousGuesses) = 2
    /\ Len(members) = POPULATION_SIZE
    /\ members[1].code = inverse(members[2].code)
    /\ members[1].code # members[2].code
    /\ \A i \in 1..Len(members) :
          /\ Len(members[i].code) = NUM_FIELDS
          /\ Range(members[i].code) \subseteq Range(SYMBOLS)

\* The code is consistent with every record of the history.
ConsistentWithAll(code, prevGuesses) ==
    \A k \in 1..Len(prevGuesses) : Consistent(code, prevGuesses[k])

\* C16: the eligible flag generation() reads after calculateFitness is true
\* exactly when the member's code is consistent with every record of the
\* history; no member enters the next evaluation with a flag already set,
\* and a member whose code was eligible and is carried over is eligible at
\* the next evaluation only if it is consistent with the record the history
\* has gained by then.
C16_EligibleFlagIsFresh ==
    probe.op = "generation" =>
        /\ \A i \in 1..Len(probe.sorted) :
              probe.sorted[i].eligible
                 <=> ConsistentWithAll(probe.sorted[i].code, probe.prevGuesses)
        /\ \A i \in 1..Len(probe.members) :
              /\ ~probe.members[i].eligible
              /\ (\E j \in 1..Len(probe.sorted) :
                     /\ probe.sorted[j].eligible
                     /\ probe.sorted[j].code = probe.members[i].code)
                 => \A r \in StepRecords :
                       calculateFitness(probe.members[i],
                                        Append(probe.prevGuesses, r)).eligible
                          <=> Consistent(probe.members[i].code, r)

\* A member that was eligible in the generation is carried into the next
\* population, where a record the history gains makes it inconsistent.
C16_Witness ==
    /\ probe.op = "generation"
    /\ probe.sorted[StepSize].eligible
    /\ probe.members[StepSize].code = probe.sorted[StepSize].code
    /\ \E r \in StepRecords :
          /\ ~Consistent(probe.members[StepSize].code, r)
          /\ ~calculateFitness(probe.members[StepSize],
                               Append(probe.prevGuesses, r)).eligible

\* C17: the two parents of a generation are two members of the highest
\* fitness: no other member of the evaluated population has a fitness above
\* that of either parent.
C17_ParentsHaveHighestFitness ==
    probe.op = "generation" =>
        /\ probe.parents[1].code # probe.parents[2].code
        /\ \A k \in 1..2 : \E i \in 1..Len(probe.sorted) :
              probe.sorted[i] = probe.parents[k]
        /\ \A i \in 1..Len(probe.sorted) :
              probe.sorted[i].code \notin {probe.parents[1].code, probe.parents[2].code}
                 => /\ probe.sorted[i].fitness <= probe.parents[1].fitness
                    /\ probe.sorted[i].fitness <= probe.parents[2].fitness

\* Three members of three different fitness values.
C17_Witness ==
    /\ probe.op = "generation"
    /\ probe.sorted[1].fitness < probe.sorted[2].fitness
    /\ probe.sorted[2].fitness < probe.sorted[3].fitness
    /\ probe.parents[1].fitness > probe.parents[2].fitness
    /\ probe.parents[2].fitness > probe.sorted[1].fitness

\* The codes of a population.
CodesOf(population) == [i \in 1..Len(population) |-> population[i].code]

\* The members of the evaluated population that no child overwrites: all
\* but two of the lowest fitness.
Survivors(population) == SubSeq(population, 3, Len(population))

\* C18: the two children take the first two slots of the next population,
\* whatever the two members they overwrite are; the overwritten members are
\* two of the lowest fitness; the codes of all other members are carried
\* over in their order, but for a code that is there already.
C18_ChildrenReplaceLowestTwo ==
    probe.op = "generation" =>
        /\ probe.members[1].code = probe.children[1]
        /\ probe.children[2] # probe.children[1]
              => probe.members[2].code = probe.children[2]
        /\ \A i \in 1..2 : \A j \in 3..Len(probe.sorted) :
              probe.sorted[i].fitness <= probe.sorted[j].fitness
        /\ \E n \in 1..Len(probe.members) :
              SubSeq(CodesOf(probe.members), 1, n)
                 = uniq(probe.children \o CodesOf(Survivors(probe.sorted)))
        /\ \A j \in 3..Len(probe.sorted) :
              probe.sorted[j].code \in Range(CodesOf(probe.members))

\* The two members overwritten are eligible, the member carried over is not,
\* and it keeps its code in the third slot.
C18_Witness ==
    /\ probe.op = "generation"
    /\ probe.sorted[1].eligible
    /\ probe.sorted[2].eligible
    /\ ~probe.sorted[3].eligible
    /\ probe.members[1].code = probe.children[1]
    /\ probe.members[2].code = probe.children[2]
    /\ probe.members[3].code = probe.sorted[3].code

\* The codes guessed so far in the game.
GuessedCodes == {previousGuesses[k].code : k \in 1..Len(previousGuesses)}

\* C19: the guess a completed round proposes is none of the codes the
\* history records, whatever feedback the rounds were given.
C19_NeverRepeatsAGuess ==
    (phase = "go" /\ Len(previousGuesses) > 0) => aiGuess \notin GuessedCodes

\* The second round of a game is completed and proposes a third guess.
C19_Witness ==
    /\ phase = "go"
    /\ Len(previousGuesses) = 2
    /\ previousGuesses[1].code # previousGuesses[2].code
    /\ testCode(previousGuesses[1].code, previousGuesses[1].code)
          # <<previousGuesses[1].x, previousGuesses[1].y>>
    /\ aiGuess \notin GuessedCodes

====
